---- MODULE Spec2Model ----
(***************************************************************************)
(* The resumable batch-translation pipeline of translate_instructions.py:  *)
(* translate_dataset with its per-language checkpoint file, translation    *)
(* cache, batch loop, atomic checkpoint write and finalization.            *)
(*                                                                         *)
(* One process runs translate_dataset at a time.  A run ends by returning  *)
(* ("done"), by an exception leaving translate_dataset ("failed") or by    *)
(* the process being killed; once the process is gone ("exited") another   *)
(* run may start on the same output directory.                             *)
(*                                                                         *)
(* Spec          runs for one language, with changing Run Keys and flags   *)
(* SpecLangs     runs over several languages and with invalid arguments    *)
(* SpecFinalize  lines 307-318 from any done set and output array          *)
(* SpecClient    call_api_batch, attempt by attempt                        *)
(***************************************************************************)
EXTENDS Integers, Sequences, FiniteSets, TLC

(* ------------------------------ bounds --------------------------------- *)

\* Largest number of records of the source dataset.
MaxTotal == 3
\* Largest --batch-size a run is started with.
MaxBatch == 2
\* Number of runs of translate_dataset in one behaviour.
MaxRuns == 2
\* Largest max_retries call_api_batch is called with.
MaxRetries == 3
\* Largest number of instructions call_api_batch is called with.
MaxRequest == 2

\* The instruction strings of the dataset records, in the order in which a
\* dataset first uses them.
StringOrder == <<"a", "b", "c">>
Strings == {StringOrder[j] : j \in DOMAIN StringOrder}
\* The instruction of a record appended to the source file between two runs.
AppendedString == "b"
\* The --model and --base-url values a run is started with.
Models == {"mA", "mB"}
BaseUrls == {"u1", "u2"}
\* Two copies of the source file with the same stem in two directories.
DataPaths == {"/d1/source.json", "/d2/source.json"}
\* The --langs lists a run is started with.
LangLists == {<<"ru">>}
\* The --timeout and --max-retries values a run is started with: the defaults.
Timeouts == {60}
RetryLimits == {6}

(* --------------------------- program constants -------------------------- *)

DEFAULT_LANGS == ("ru" :> "Russian") @@ ("zh" :> "Simplified Chinese")

PROGRESS_VERSION == 1

LangCodes == DOMAIN DEFAULT_LANGS

(* ------------------------------ JSON values ----------------------------- *)

\* Python's None / JSON null in the output array.
Null == [null |-> TRUE]

\* A file of the output directory: missing, holding a complete JSON text, or
\* holding the truncated text a killed write_text leaves behind.
Absent == [kind |-> "absent"]
Partial == [kind |-> "partial"]
\* A directory.
Dir == [kind |-> "dir"]
JsonFile(payload) == [kind |-> "json", content |-> payload]

\* A file somebody else put there: a text json.loads accepts, kept as the
\* JSON value it parses to.
HandMadeFile(doc) == [kind |-> "handmade", content |-> doc]

\* What json.loads returns, each value with its Python type: int, float (in
\* tenths), str, bool, None, list and dict.
JInt(n) == [type |-> "int", value |-> n]
JFloat(tenths) == [type |-> "float", value |-> tenths]
JStr(s) == [type |-> "str", value |-> s]
JBool(b) == [type |-> "bool", value |-> b]
JNull == [type |-> "NoneType"]
JList(list) == [type |-> "list", value |-> list]
JDict(object) == [type |-> "dict", value |-> object]

\* The value as the translator's variables hold it: a str is the string
\* itself, a value of another type keeps its type.
PyValue(v) == IF v.type = "str" THEN v.value ELSE v

\* The strings int() reads as a decimal numeral, with their values.
Numerals == ("0" :> 0) @@ ("1" :> 1)

\* line 180, int(i): an int is itself, a float is cut towards zero, a bool
\* is 0 or 1, a numeral string is its number; another string raises
\* ValueError and None, a list or a dict raises TypeError.
int(i) ==
    IF i.type = "int" THEN [error |-> "", value |-> i.value]
    ELSE IF i.type = "float"
      THEN [error |-> "", value |-> IF i.value >= 0 THEN i.value \div 10 ELSE -((-i.value) \div 10)]
    ELSE IF i.type = "bool" THEN [error |-> "", value |-> IF i.value THEN 1 ELSE 0]
    ELSE IF i.type = "str"
      THEN IF i.value \in DOMAIN Numerals THEN [error |-> "", value |-> Numerals[i.value]]
           ELSE [error |-> "ValueError", value |-> 0]
    ELSE [error |-> "TypeError", value |-> 0]

\* dict.get of lines 170, 175 and 192: None for a missing key.
Get(object, key) == IF key \in DOMAIN object THEN object[key] ELSE JNull

Range(f) == {f[x] : x \in DOMAIN f}

\* The set listed without sorting, here from its largest element down.
RECURSIVE Unsorted(_)
Unsorted(S) ==
    IF S = {} THEN <<>>
    ELSE LET m == CHOOSE x \in S : \A y \in S : x >= y
         IN <<m>> \o Unsorted(S \ {m})

\* sorted(S) of a set of integers: the ascending list.
RECURSIVE Sorted(_)
Sorted(S) ==
    IF S = {} THEN <<>>
    ELSE LET m == CHOOSE x \in S : \A y \in S : x <= y
         IN <<m>> \o Sorted(S \ {m})

\* Path(data_path).stem and str(Path(data_path).resolve()).
Stem(data_path) == "source"
Resolve(data_path) == data_path

\* item.get("instruction", "")
Instruction(item) ==
    IF "instruction" \in DOMAIN item THEN item.instruction ELSE ""

(* ------------------------------- the Client ----------------------------- *)

\* The translation the test's stub Client gives: f"{lang_name}:{x}".
Translate(lang_name, s) == lang_name \o ":" \o s
\* Another translation a real endpoint may return for the same string.
TranslateAlt(lang_name, s) == lang_name \o ":" \o s \o "~"
Replies(lang_name, s) == {Translate(lang_name, s), TranslateAlt(lang_name, s)}

\* The lists call_api_batch may return for `instructions`: same length,
\* element k a translation of instructions[k].
ClientReplies(instructions, lang_name) ==
    {r \in [1..Len(instructions) -> UNION {Replies(lang_name, s) : s \in Strings}] :
        \A k \in 1..Len(instructions) : r[k] \in Replies(lang_name, instructions[k])}

(* ------------------------------ the paths ------------------------------- *)

OutPath(base_name, lang_code) == base_name \o "_" \o lang_code \o ".json"

_progress_path(base_name, lang_code) ==
    ".translate_progress_" \o base_name \o "_" \o lang_code \o ".json"

\* The text is written in place.
InPlacePath(path) == path

\* _atomic_write_json, line 113: path.with_name(path.name + ".tmp")
TmpPath(path) == path \o ".tmp"

\* Path(out_dir): the output directory itself, and the files in it.
out_dir_path == "."

AllPaths ==
    {out_dir_path} \cup
    UNION {{OutPath(Stem(p), l), _progress_path(Stem(p), l),
            TmpPath(_progress_path(Stem(p), l))} : p \in DataPaths, l \in LangCodes}

(* --------------------------- the progress state ------------------------- *)

_build_progress_state(data_path, total, model, base_url, lang_code, done_indices, cache, out_items) ==
    [version |-> PROGRESS_VERSION,
     source_path |-> Resolve(data_path),
     source_size |-> total,
     model |-> model,
     base_url |-> base_url,
     lang_code |-> lang_code,
     done_indices |-> Sorted(done_indices),
     cache |-> cache,
     items |-> out_items]

\* The comparison leaves the endpoint out.
MismatchesButEndpoint(state, data_path, total, model, base_url, lang_code) ==
    LET expected == [version |-> PROGRESS_VERSION,
                     source_path |-> Resolve(data_path),
                     source_size |-> total,
                     model |-> model,
                     lang_code |-> lang_code]
    IN {key \in DOMAIN expected : key \notin DOMAIN state \/ state[key] # expected[key]}

\* The Run-Key fields of `state` that differ from the current run's.
Mismatches(state, data_path, total, model, base_url, lang_code) ==
    LET expected == [version |-> PROGRESS_VERSION,
                     source_path |-> Resolve(data_path),
                     source_size |-> total,
                     model |-> model,
                     base_url |-> base_url,
                     lang_code |-> lang_code]
    IN {key \in DOMAIN expected : key \notin DOMAIN state \/ state[key] # expected[key]}

\* json.loads of the text json.dumps made of a payload of
\* _build_progress_state (lines 115 and 145): an object whose done_indices
\* is a list of ints, whose cache is an object and whose items is a list.
JsonValue(payload) ==
    JDict([version |-> payload.version,
           source_path |-> payload.source_path,
           source_size |-> payload.source_size,
           model |-> payload.model,
           base_url |-> payload.base_url,
           lang_code |-> payload.lang_code,
           done_indices |-> JList([k \in 1..Len(payload.done_indices) |-> JInt(payload.done_indices[k])]),
           cache |-> JDict([k \in DOMAIN payload.cache |-> JStr(payload.cache[k])]),
           items |-> JList(payload.items)])

\* _load_progress_state, line 145: the parsed text of the file, or the
\* JSONDecodeError of json.loads for a text that is not JSON.
_load_progress_state(file) ==
    IF file.kind = "json" THEN [result |-> "ok", state |-> JsonValue(file.content)]
    ELSE IF file.kind = "handmade" THEN [result |-> "ok", state |-> file.content]
    ELSE [result |-> "corrupt"]

\* line 181
OutOfRange(done_index_set, total) == \E i \in done_index_set : i < 0 \/ i >= total

\* The items of the done indices are not looked at.
NullItemUnchecked(done_index_set, items) == FALSE

\* lines 186-187: an index marked done whose item is None.
NullItem(done_index_set, items) == \E i \in done_index_set : items[i + 1] = Null

\* _validate_progress_state: the error it raises, or "ok" with what it
\* returns. `state` is what json.loads gave. state.get of line 161 raises
\* AttributeError when state is not an object, and int(i) of line 180 raises
\* for the first entry of done_indices it cannot convert.
_validate_progress_state(state, data_path, total, model, base_url, lang_code) ==
    IF state.type # "dict" THEN [result |-> "AttributeError"]
    ELSE IF Mismatches(state.value, data_path, total, model, base_url, lang_code) # {}
      THEN [result |-> "mismatch"]
    ELSE LET items == Get(state.value, "items")
             done_indices == Get(state.value, "done_indices")
             cache == Get(state.value, "cache")
         IN IF items.type # "list" \/ Len(items.value) # total
              THEN [result |-> "items_shape"]
            ELSE IF done_indices.type # "list"
              THEN [result |-> "done_indices_list"]
            ELSE LET failing == {k \in 1..Len(done_indices.value) : int(done_indices.value[k]).error # ""}
                     done_index_set == {int(done_indices.value[k]).value : k \in 1..Len(done_indices.value)}
                 IN IF failing # {}
                      THEN [result |-> int(done_indices.value[CHOOSE k \in failing : \A j \in failing : k <= j]).error]
                    ELSE IF OutOfRange(done_index_set, total)
                      THEN [result |-> "out_of_range"]
                    ELSE IF NullItem(done_index_set, items.value)
                      THEN [result |-> "null_item"]
                    ELSE IF cache.type # "dict"
                      THEN [result |-> "cache_object"]
                    ELSE [result |-> "ok",
                          done_indices |-> done_index_set,
                          cache |-> [k \in DOMAIN cache.value |-> PyValue(cache.value[k])],
                          out_items |-> items.value]

(* ------------------------------- the state ------------------------------ *)

VARIABLES
    source,        \* the JSON array in the source file (both copies)
    disk,          \* the files of the output directory, by name
    pc,            \* where the process is; "idle" before the first run
    err,           \* the exception that ended the run, "" if none
    args,          \* the arguments of translate_dataset
    data,          \* line 213: the loaded dataset
    lang_i,        \* position in `langs` of the language being processed
    done_indices,  \* line 233
    cache,         \* line 234
    out_items,     \* line 235
    start,         \* line 253: the first position of the current batch
    loaded,        \* this language's run adopted a checkpoint (RESUMING)
    adopted,       \* lines 238-246: what _validate_progress_state returned to it
    wrote,         \* this language's run has written a checkpoint
    calls,         \* call_api_batch invocations for this language so far
    submitted,     \* per string: times it was passed to a successful call
    clientDet,     \* every reply of the Client so far was Translate of its input
    runs,          \* the number of runs started so far
    prev,          \* how the last process that is gone ended
    request,       \* call_api_batch: its argument `instructions`
    retries,       \* call_api_batch: its argument max_retries
    attempt,       \* line 83: the loop variable, 0 before the loop
    resp,          \* line 85: what requests.post gave in this attempt
    last_err,      \* lines 82 and 103
    cpc,           \* where call_api_batch is; "idle" when it is not running
    posts,         \* the requests sent so far
    returned,      \* the value call_api_batch has returned
    slept          \* the time.sleep calls so far, in tenths of a second

client == <<request, retries, attempt, resp, last_err, cpc, posts, returned, slept>>

vars == <<source, disk, pc, err, args, data, lang_i, done_indices, cache,
          out_items, start, loaded, adopted, wrote, calls, submitted, clientDet, runs, prev, client>>

locals == <<done_indices, cache, out_items, start>>
ghosts == <<loaded, adopted, wrote, calls, submitted>>

Record(i, s) == [index |-> i, instruction |-> s]

\* The strings are interchangeable: a dataset uses them in StringOrder, each
\* record's instruction one already used or the next unused one.
InOrder(g) ==
    \A i \in DOMAIN g :
        \E j \in DOMAIN StringOrder :
            /\ StringOrder[j] = g[i]
            /\ j <= 1 + Cardinality({g[m] : m \in 1..(i - 1)})

\* The source datasets of up to MaxTotal records.
Datasets ==
    UNION {{[i \in 1..n |-> Record(i - 1, g[i])] : g \in {h \in [1..n -> Strings] : InOrder(h)}} : n \in 0..MaxTotal}

NoArgs ==
    [data_path |-> "", langs |-> <<>>, model |-> "", base_url |-> "",
     batch_size |-> 0, timeout |-> 0, max_retries |-> 0,
     resume |-> FALSE, force_restart |-> FALSE]

EmptyCache == [s \in {} |-> ""]
\* No checkpoint was adopted.
NotAdopted == [result |-> "none"]

\* Python's None as the value of last_err, no response, and no value returned.
None == "None"
NoResp == [kind |-> "none"]
NoValue == [json |-> "none"]

\* call_api_batch is not running.
ClientIdle ==
    /\ request = <<>>
    /\ retries = 0
    /\ attempt = 0
    /\ resp = NoResp
    /\ last_err = None
    /\ cpc = "idle"
    /\ posts = 0
    /\ returned = NoValue
    /\ slept = <<>>
NoneSubmitted == [s \in Strings |-> 0]

\* The values of the arguments the runs are started with: the first run has
\* the usual configuration, a later one differs from it in at most one of
\* source path, model and endpoint.
UsualKey == [data_path |-> "/d1/source.json", model |-> "mA", base_url |-> "u1"]

ArgValues ==
    {a \in [data_path : DataPaths, langs : LangLists, model : Models, base_url : BaseUrls,
            batch_size : 1..MaxBatch, timeout : Timeouts, max_retries : RetryLimits,
            resume : BOOLEAN, force_restart : BOOLEAN] :
        Cardinality({f \in DOMAIN UsualKey : a[f] # UsualKey[f]}) <= 1}

Init ==
    /\ source \in Datasets
    /\ disk \in {[p \in AllPaths |-> IF p = out_dir_path THEN d ELSE Absent] : d \in {Absent, Dir}}
    /\ pc = "idle"
    /\ err = ""
    /\ args = NoArgs
    /\ data = <<>>
    /\ lang_i = 0
    /\ done_indices = {}
    /\ cache = EmptyCache
    /\ out_items = <<>>
    /\ start = 0
    /\ loaded = FALSE
    /\ adopted = NotAdopted
    /\ wrote = FALSE
    /\ calls = 0
    /\ submitted = NoneSubmitted
    /\ clientDet = TRUE
    /\ runs = 0
    /\ prev = "none"
    /\ ClientIdle

(* --------------------------- the current run ---------------------------- *)

Stopped == pc \in {"idle", "exited"}
Running == pc \notin {"idle", "done", "failed", "exited"}

lang_code == args.langs[lang_i]
\* The display name is looked up once, for the first language of the list.
FirstLangName == DEFAULT_LANGS[args.langs[1]]

lang_name == DEFAULT_LANGS[lang_code]
total == Len(data)
base_name == Stem(args.data_path)
out_path == OutPath(base_name, lang_code)
progress_path == _progress_path(base_name, lang_code)

\* A file whose text is not JSON counts as missing.
ExistsParsable(path) == disk[path].kind \notin {"absent", "partial"}

\* path.exists()
Exists(path) == disk[path].kind # "absent"

\* The payload of the checkpoint written for the in-memory state.
CurrentProgressState ==
    _build_progress_state(args.data_path, total, args.model, args.base_url, lang_code, done_indices, cache, out_items)

(* ----------------------------- the batch loop --------------------------- *)

Min(a, b) == IF a <= b THEN a ELSE b

\* Only the first position of each range is taken.
BatchFirstOnly == [k \in 1..Min(1, Min(start + args.batch_size, total) - start) |-> start + k - 1]

\* line 254: the positions start .. min(start + batch_size, total) - 1.
batch_positions == [k \in 1..(Min(start + args.batch_size, total) - start) |-> start + k - 1]

\* The positions already done are not dropped from the batch.
PendingUnfiltered == batch_positions

\* line 255
pending_positions == SelectSeq(batch_positions, LAMBDA idx : idx \notin done_indices)

\* lines 260-261
batch_instructions == [k \in 1..Len(pending_positions) |-> Instruction(data[pending_positions[k] + 1])]

\* lines 263-269: the places of batch_instructions that miss the cache.
missing_indices == SelectSeq([k \in 1..Len(batch_instructions) |-> k], LAMBDA k : batch_instructions[k] \notin DOMAIN cache)

\* The whole batch is passed, cache hits included.
ToTranslateWholeBatch == batch_instructions

\* line 272
to_translate == [j \in 1..Len(missing_indices) |-> batch_instructions[missing_indices[j]]]

\* lines 264-269 and 282-283: the translation of each pending position, a
\* cache hit or the reply's element for a miss.
Translations(batch_translations) ==
    [k \in 1..Len(batch_instructions) |->
        IF \E j \in 1..Len(missing_indices) : missing_indices[j] = k
          THEN batch_translations[CHOOSE j \in 1..Len(missing_indices) : missing_indices[j] = k]
          ELSE cache[batch_instructions[k]]]

\* The reply is not put into the cache.
CacheUnchanged(c, strings, batch_translations) == c

\* The cache is filled with the source string in place of its translation.
RECURSIVE CacheOfSources(_, _, _)
CacheOfSources(c, strings, batch_translations) ==
    IF strings = <<>> THEN c
    ELSE CacheOfSources((Head(strings) :> Head(strings)) @@ c, Tail(strings), Tail(batch_translations))

\* line 284, over the whole zip: a later element of the reply overwrites an
\* earlier one for the same string.
RECURSIVE CacheAfter(_, _, _)
CacheAfter(c, strings, batch_translations) ==
    IF strings = <<>> THEN c
    ELSE CacheAfter((Head(strings) :> Head(batch_translations)) @@ c, Tail(strings), Tail(batch_translations))

\* The instruction is replaced in the record of the loaded dataset itself.
ReplaceInPlace(item, translated) ==
    LET new_item == [f \in DOMAIN item \cup {"instruction"} |-> IF f = "instruction" THEN translated ELSE item[f]]
    IN [new_item |-> new_item, item |-> new_item]

\* lines 287-288: new_item is a copy of item with its instruction replaced;
\* `item` is what the record of the loaded dataset is afterwards.
CopyWithInstruction(item, translated) ==
    [new_item |-> [f \in DOMAIN item \cup {"instruction"} |-> IF f = "instruction" THEN translated ELSE item[f]],
     item |-> item]

\* The translations are put at the first positions of the batch, done or not.
MergedAtBatchPlaces(translations) ==
    [i \in 1..Len(out_items) |->
        IF \E k \in 1..Len(pending_positions) : batch_positions[k] + 1 = i
          THEN LET k == CHOOSE k \in 1..Len(pending_positions) : batch_positions[k] + 1 = i
               IN CopyWithInstruction(data[i], translations[k]).new_item
          ELSE out_items[i]]

\* lines 286-290 for the batch's pending positions.
MergedItems(translations) ==
    [i \in 1..Len(out_items) |->
        IF \E k \in 1..Len(pending_positions) : pending_positions[k] + 1 = i
          THEN LET k == CHOOSE k \in 1..Len(pending_positions) : pending_positions[k] + 1 = i
               IN CopyWithInstruction(data[i], translations[k]).new_item
          ELSE out_items[i]]

DataAfterMerge(translations) ==
    [i \in 1..Len(data) |->
        IF \E k \in 1..Len(pending_positions) : pending_positions[k] + 1 = i
          THEN LET k == CHOOSE k \in 1..Len(pending_positions) : pending_positions[k] + 1 = i
               IN CopyWithInstruction(data[i], translations[k]).item
          ELSE data[i]]

\* The done set is replaced by the positions of the batch.
DoneOfBatchOnly == Range(pending_positions)

\* line 290
DoneAfterMerge == done_indices \cup Range(pending_positions)

\* How often string s occurs in the list.
Occurrences(list, s) == Cardinality({j \in 1..Len(list) : list[j] = s})

(* ----------------------------- the file writes -------------------------- *)

\* Only the first checkpoint of a file is written; later writes repeat the
\* text that is there.
WriteTmpTextOnce(d, path, payload) ==
    [d EXCEPT ![TmpPath(path)] = IF d[path].kind = "json" THEN d[path] ELSE JsonFile(payload)]

\* _atomic_write_json, lines 113-117: the text goes to the sibling temporary path.
WriteTmpText(d, path, payload) == [d EXCEPT ![TmpPath(path)] = JsonFile(payload)]

\* The process is killed inside write_text of line 114.
TornTmpText(d, path) == [d EXCEPT ![TmpPath(path)] = Partial]

\* _atomic_write_json, line 118: tmp_path.replace(path).
ReplaceTmp(d, path) == [d EXCEPT ![TmpPath(path)] = Absent, ![path] = d[TmpPath(path)]]

\* The file is left where it is.
UnlinkForgotten(d, path) == d

\* line 216: out_dir_path.mkdir(parents=True, exist_ok=True)
Mkdir(d) == [d EXCEPT ![out_dir_path] = Dir]

\* path.unlink() behind path.exists()
UnlinkIfExists(d, path) == IF d[path].kind # "absent" THEN [d EXCEPT ![path] = Absent] ELSE d

(* -------------------------------- actions ------------------------------- *)

\* An exception leaves translate_dataset.
Fail(kind) ==
    /\ pc' = "failed"
    /\ err' = kind

\* Lines 213-224: translate_dataset is entered with the arguments a.
translate_dataset(a) ==
    /\ runs' = runs + 1
    /\ args' = a
    /\ data' = source
    /\ disk' = Mkdir(disk)
    /\ IF a.batch_size <= 0 THEN Fail("batch_size") /\ lang_i' = 0
       ELSE IF a.timeout <= 0 THEN Fail("timeout") /\ lang_i' = 0
       ELSE IF a.max_retries <= 0 THEN Fail("max_retries") /\ lang_i' = 0
       ELSE IF a.langs = <<>> THEN pc' = "done" /\ err' = "" /\ lang_i' = 0
       ELSE pc' = "lang" /\ err' = "" /\ lang_i' = 1
    /\ done_indices' = {}
    /\ cache' = EmptyCache
    /\ out_items' = <<>>
    /\ start' = 0
    /\ loaded' = FALSE
    /\ adopted' = NotAdopted
    /\ wrote' = FALSE
    /\ calls' = 0
    /\ submitted' = NoneSubmitted
    /\ UNCHANGED <<source, clientDet, prev, client>>

\* A process starts translate_dataset.
StartRun ==
    /\ Stopped
    /\ runs < MaxRuns
    /\ \E a \in ArgValues :
          /\ runs = 0 => \A f \in DOMAIN UsualKey : a[f] = UsualKey[f]
          /\ translate_dataset(a)

\* Lines 224-235: the next language; force restart; the FRESH state.
BeginLang ==
    /\ pc = "lang"
    /\ IF lang_code \notin DOMAIN DEFAULT_LANGS
         THEN /\ Fail("KeyError")
              /\ UNCHANGED <<disk, locals, ghosts>>
         ELSE /\ disk' = IF args.force_restart THEN UnlinkIfExists(disk, progress_path) ELSE disk
              /\ done_indices' = {}
              /\ cache' = EmptyCache
              /\ out_items' = [i \in 1..total |-> Null]
              /\ start' = 0
              /\ loaded' = FALSE
              /\ adopted' = NotAdopted
              /\ wrote' = FALSE
              /\ calls' = 0
              /\ submitted' = NoneSubmitted
              /\ pc' = "load"
              /\ UNCHANGED err
    /\ UNCHANGED <<source, args, data, lang_i, clientDet, runs, prev, client>>

\* The output array of the checkpoint is not taken over.
LoadWithoutItems ==
    /\ pc = "load"
    /\ IF args.resume /\ Exists(progress_path)
         THEN IF _load_progress_state(disk[progress_path]).result # "ok"
                THEN /\ Fail(_load_progress_state(disk[progress_path]).result)
                     /\ UNCHANGED <<locals, loaded, adopted>>
                ELSE LET v == _validate_progress_state(_load_progress_state(disk[progress_path]).state, args.data_path, total, args.model, args.base_url, lang_code)
                     IN IF v.result # "ok"
                          THEN /\ Fail(v.result)
                               /\ UNCHANGED <<locals, loaded, adopted>>
                          ELSE /\ done_indices' = v.done_indices
                               /\ cache' = v.cache
                               /\ out_items' = out_items
                               /\ loaded' = TRUE
                               /\ adopted' = v
                               /\ pc' = "loop"
                               /\ UNCHANGED <<start, err>>
         ELSE /\ pc' = "loop"
              /\ UNCHANGED <<locals, loaded, adopted, err>>
    /\ UNCHANGED <<source, disk, args, data, lang_i, wrote, calls, submitted, clientDet, runs, prev, client>>

\* Lines 236-250: adopt the checkpoint when resuming.
Load ==
    /\ pc = "load"
    /\ IF args.resume /\ Exists(progress_path)
         THEN IF _load_progress_state(disk[progress_path]).result # "ok"
                THEN /\ Fail(_load_progress_state(disk[progress_path]).result)
                     /\ UNCHANGED <<locals, loaded, adopted>>
                ELSE LET v == _validate_progress_state(_load_progress_state(disk[progress_path]).state, args.data_path, total, args.model, args.base_url, lang_code)
                     IN IF v.result # "ok"
                          THEN /\ Fail(v.result)
                               /\ UNCHANGED <<locals, loaded, adopted>>
                          ELSE /\ done_indices' = v.done_indices
                               /\ cache' = v.cache
                               /\ out_items' = v.out_items
                               /\ loaded' = TRUE
                               /\ adopted' = v
                               /\ pc' = "loop"
                               /\ UNCHANGED <<start, err>>
         ELSE /\ pc' = "loop"
              /\ UNCHANGED <<locals, loaded, adopted, err>>
    /\ UNCHANGED <<source, disk, args, data, lang_i, wrote, calls, submitted, clientDet, runs, prev, client>>

\* A batch with no pending position goes on to write the checkpoint again.
SkipBatchSaving ==
    /\ pc = "loop"
    /\ start < total
    /\ pending_positions = <<>>
    /\ pc' = "write_tmp"
    /\ UNCHANGED <<source, disk, err, args, data, lang_i, done_indices, cache, out_items, start, ghosts, clientDet, runs, prev, client>>

\* Lines 253-258: a batch with no pending position.
SkipBatch ==
    /\ pc = "loop"
    /\ start < total
    /\ pending_positions = <<>>
    /\ start' = start + args.batch_size
    /\ UNCHANGED <<source, disk, pc, err, args, data, lang_i, done_indices, cache, out_items, ghosts, clientDet, runs, prev, client>>

\* Lines 286-290 and what follows them.
Merge(translations) ==
    /\ out_items' = MergedItems(translations)
    /\ data' = DataAfterMerge(translations)
    /\ done_indices' = DoneAfterMerge
    /\ pc' = "write_tmp"

\* Lines 253-290: a batch whose pending positions all hit the cache.
BatchHits ==
    /\ pc = "loop"
    /\ start < total
    /\ pending_positions # <<>>
    /\ missing_indices = <<>>
    /\ Merge(Translations(<<>>))
    /\ UNCHANGED <<source, disk, err, args, lang_i, cache, start, ghosts, clientDet, runs, prev, client>>

\* Lines 253-290: a batch with cache misses, the Client returning a list.
BatchCall ==
    /\ pc = "loop"
    /\ start < total
    /\ missing_indices # <<>>
    /\ \E batch_translations \in ClientReplies(to_translate, lang_name) :
          /\ Merge(Translations(batch_translations))
          /\ cache' = CacheAfter(cache, to_translate, batch_translations)
          /\ clientDet' = (clientDet /\ \A j \in 1..Len(to_translate) : batch_translations[j] = Translate(lang_name, to_translate[j]))
    /\ calls' = calls + 1
    /\ submitted' = [s \in Strings |-> submitted[s] + Occurrences(to_translate, s)]
    /\ UNCHANGED <<source, disk, err, args, lang_i, start, loaded, adopted, wrote, runs, prev, client>>

\* Lines 271-281: call_api_batch raises, its retries exhausted.
ClientFails ==
    /\ pc = "loop"
    /\ start < total
    /\ missing_indices # <<>>
    /\ calls' = calls + 1
    /\ Fail("client")
    /\ UNCHANGED <<source, disk, args, data, lang_i, locals, loaded, adopted, wrote, submitted, clientDet, runs, prev, client>>

\* Lines 292-304, _atomic_write_json lines 113-117.
WriteTmp ==
    /\ pc = "write_tmp"
    /\ disk' = WriteTmpText(disk, progress_path, CurrentProgressState)
    /\ pc' = "replace"
    /\ UNCHANGED <<source, err, args, data, lang_i, locals, ghosts, clientDet, runs, prev, client>>

\* _atomic_write_json line 118, then the next batch.
Replace ==
    /\ pc = "replace"
    /\ disk' = ReplaceTmp(disk, progress_path)
    /\ wrote' = TRUE
    /\ start' = start + args.batch_size
    /\ pc' = "loop"
    /\ UNCHANGED <<source, err, args, data, lang_i, done_indices, cache, out_items, loaded, adopted, calls, submitted, clientDet, runs, prev, client>>

\* Only the number of done positions is looked at.
IncompleteCount == Cardinality(done_indices) # total

\* line 307
Incomplete == Cardinality(done_indices) # total \/ \E i \in 1..Len(out_items) : out_items[i] = Null

\* Lines 307-310: the loop is over.
LoopExit ==
    /\ pc = "loop"
    /\ start >= total
    /\ IF Incomplete
         THEN Fail("incomplete")
         ELSE /\ pc' = "write_out"
              /\ UNCHANGED err
    /\ UNCHANGED <<source, disk, args, data, lang_i, locals, ghosts, clientDet, runs, prev, client>>

\* The checkpoint is discarded by the step that writes the output.
WriteOutAfterUnlink ==
    /\ pc = "write_out"
    /\ disk' = [UnlinkIfExists(disk, progress_path) EXCEPT ![out_path] = JsonFile(out_items)]
    /\ pc' = "unlink"
    /\ UNCHANGED <<source, err, args, data, lang_i, locals, ghosts, clientDet, runs, prev, client>>

\* Lines 312-315.
WriteOut ==
    /\ pc = "write_out"
    /\ disk' = [disk EXCEPT ![out_path] = JsonFile(out_items)]
    /\ pc' = "unlink"
    /\ UNCHANGED <<source, err, args, data, lang_i, locals, ghosts, clientDet, runs, prev, client>>

\* The checkpoint is deleted only if this run adopted or wrote it.
UnlinkOwn ==
    /\ pc = "unlink"
    /\ disk' = IF loaded \/ wrote THEN UnlinkIfExists(disk, progress_path) ELSE disk
    /\ pc' = "next"
    /\ UNCHANGED <<source, err, args, data, lang_i, locals, ghosts, clientDet, runs, prev, client>>

\* Lines 316-318: the language is finished.
Unlink ==
    /\ pc = "unlink"
    /\ disk' = UnlinkIfExists(disk, progress_path)
    /\ pc' = "next"
    /\ UNCHANGED <<source, err, args, data, lang_i, locals, ghosts, clientDet, runs, prev, client>>

\* Line 224: the loop over langs goes on, or translate_dataset returns.
NextLang ==
    /\ pc = "next"
    /\ IF lang_i < Len(args.langs)
         THEN /\ lang_i' = lang_i + 1
              /\ pc' = "lang"
         ELSE /\ pc' = "done"
              /\ UNCHANGED lang_i
    /\ UNCHANGED <<source, disk, err, args, data, locals, ghosts, clientDet, runs, prev, client>>

\* The process is gone, and its memory with it.
Gone(how) ==
    /\ pc' = "exited"
    /\ prev' = how
    /\ err' = ""
    /\ args' = NoArgs
    /\ data' = <<>>
    /\ lang_i' = 0
    /\ done_indices' = {}
    /\ cache' = EmptyCache
    /\ out_items' = <<>>
    /\ start' = 0
    /\ loaded' = FALSE
    /\ adopted' = NotAdopted
    /\ wrote' = FALSE
    /\ calls' = 0
    /\ submitted' = NoneSubmitted
    /\ UNCHANGED <<source, clientDet, runs, client>>

\* translate_dataset has returned or raised, and the process ends.
Exit ==
    /\ pc \in {"done", "failed"}
    /\ Gone(IF pc = "failed" THEN err ELSE "done")
    /\ UNCHANGED disk

\* The process is killed between two steps.
Crash ==
    /\ Running
    /\ Gone("crashed")
    /\ UNCHANGED disk

\* The process is killed while write_text of line 114 is writing.
CrashInCheckpointWrite ==
    /\ pc = "write_tmp"
    /\ disk' = TornTmpText(disk, progress_path)
    /\ Gone("crashed")

\* The process is killed while write_text of line 312 is writing.
CrashInOutputWrite ==
    /\ pc = "write_out"
    /\ disk' = [disk EXCEPT ![out_path] = Partial]
    /\ Gone("crashed")

\* Between two runs a record is appended to the source dataset.
AppendRecord ==
    /\ pc = "exited"
    /\ runs < MaxRuns
    /\ Len(source) < MaxTotal
    /\ source' = Append(source, Record(Len(source), AppendedString))
    /\ UNCHANGED <<disk, pc, err, args, data, lang_i, locals, ghosts, clientDet, runs, prev, client>>

Next ==
    \/ StartRun
    \/ BeginLang
    \/ Load
    \/ SkipBatch
    \/ BatchHits
    \/ BatchCall
    \/ ClientFails
    \/ WriteTmp
    \/ Replace
    \/ LoopExit
    \/ WriteOut
    \/ Unlink
    \/ NextLang
    \/ Exit
    \/ Crash
    \/ CrashInCheckpointWrite
    \/ CrashInOutputWrite
    \/ AppendRecord

Spec == Init /\ [][Next]_vars

(* ---------------- the finalization, lines 307-318, on its own ------------ *)

\* The record the loop puts at position i of out_items.
Translated(records, name, i) ==
    CopyWithInstruction(records[i], Translate(name, Instruction(records[i]))).new_item

\* The first value of range(0, n, step) that the loop does not take.
RangeEnd(n, step) == CHOOSE m \in n..(n + step - 1) : m % step = 0

\* Line 307 is reached by one language's run with any done set and any output
\* array of the size of the dataset: some positions done, some entries null.
InitFinalize ==
    /\ source \in Datasets
    /\ data = source
    /\ \E b \in 1..MaxBatch :
          /\ args = [data_path |-> UsualKey.data_path, langs |-> <<"ru">>, model |-> UsualKey.model,
                     base_url |-> UsualKey.base_url, batch_size |-> b, timeout |-> 60, max_retries |-> 6,
                     resume |-> TRUE, force_restart |-> FALSE]
          /\ start = RangeEnd(Len(source), b)
    /\ lang_i = 1
    /\ pc = "loop"
    /\ err = ""
    /\ done_indices \in SUBSET (0..(Len(source) - 1))
    /\ out_items \in {[i \in 1..Len(source) |-> IF i \in filled THEN Translated(source, "Russian", i) ELSE Null] :
                          filled \in SUBSET (1..Len(source))}
    /\ cache = EmptyCache
    /\ \E kept \in BOOLEAN :
          disk = [p \in AllPaths |->
                    IF p = out_dir_path THEN Dir
                    ELSE IF kept /\ p = _progress_path("source", "ru")
                      THEN JsonFile(_build_progress_state(args.data_path, Len(source), args.model, args.base_url, "ru", done_indices, cache, out_items))
                    ELSE Absent]
    /\ loaded = FALSE
    /\ adopted = NotAdopted
    /\ wrote = FALSE
    /\ calls = 0
    /\ submitted = NoneSubmitted
    /\ clientDet = TRUE
    /\ runs = 1
    /\ prev = "none"
    /\ ClientIdle

NextFinalize ==
    \/ LoopExit
    \/ WriteOut
    \/ Unlink
    \/ NextLang
    \/ Exit
    \/ Crash
    \/ CrashInOutputWrite

SpecFinalize == InitFinalize /\ [][NextFinalize]_vars

(* ------------------- runs over several languages ------------------------ *)

\* The language lists translate_dataset is called with: none, two known
\* codes, and an unknown code after or before a known one.
LangListsOfCaller == {<<>>, <<"ru", "zh">>, <<"ru", "xx">>, <<"xx", "ru">>}

\* The arguments of a direct call of translate_dataset: the usual
\* configuration with any of the language lists and flags, or with two known
\* languages and one of batch size, timeout and retry count not positive.
CallerArgValues ==
    {a \in [data_path : {UsualKey.data_path}, langs : LangListsOfCaller, model : {UsualKey.model},
            base_url : {UsualKey.base_url}, batch_size : 0..MaxBatch, timeout : {0, 60}, max_retries : {0, 6},
            resume : BOOLEAN, force_restart : BOOLEAN] :
        LET bad == {f \in {"batch_size", "timeout", "max_retries"} : a[f] <= 0}
        IN \/ bad = {}
           \/ /\ Cardinality(bad) = 1
              /\ a.langs = <<"ru", "zh">>
              /\ a.resume
              /\ ~a.force_restart
              /\ a.batch_size <= 1}

\* translate_dataset is called with any of these arguments.
CallTranslateDataset ==
    /\ Stopped
    /\ runs < MaxRuns
    /\ \E a \in CallerArgValues : translate_dataset(a)

NextLangs ==
    \/ CallTranslateDataset
    \/ BeginLang
    \/ Load
    \/ SkipBatch
    \/ BatchHits
    \/ BatchCall
    \/ ClientFails
    \/ WriteTmp
    \/ Replace
    \/ LoopExit
    \/ WriteOut
    \/ Unlink
    \/ NextLang
    \/ Exit
    \/ Crash
    \/ CrashInCheckpointWrite
    \/ CrashInOutputWrite
    \/ AppendRecord

\* The datasets leave room for one appended record.
InitLangs ==
    /\ Init
    /\ Len(source) < MaxTotal

SpecLangs == InitLangs /\ [][NextLangs]_vars

(* ------------------------ call_api_batch, lines 65-105 ------------------- *)

translator == <<source, disk, pc, err, args, data, lang_i, done_indices, cache,
                out_items, start, loaded, adopted, wrote, calls, submitted, clientDet, runs, prev>>

\* The lang_name call_api_batch is called with.
ClientLang == "Russian"

\* The lists call_api_batch is called with.
Requests ==
    UNION {{g \in [1..n -> Strings] : InOrder(g)} : n \in 0..MaxRequest}

\* line 86
TransientStatus == {429, 500, 502, 503, 504}

\* The JSON texts a message content may hold once its code fence is
\* stripped: nothing, a text json.loads rejects, an object, a string, and
\* the arrays of up to one element more than the request, element k the
\* translation of instructions[k].
ContentTexts(instructions) ==
    {[json |-> j] : j \in {"empty", "invalid", "object", "string"}} \cup
    {[json |-> "list",
      items |-> [k \in 1..m |-> IF k <= Len(instructions) THEN Translate(ClientLang, instructions[k]) ELSE "extra"]] :
        m \in 0..(Len(instructions) + 1)}

\* What requests.post of line 85 may give: an exception (timeout, no
\* connection), a response with a transient or another error status, and a
\* 200 response whose body is not JSON, is JSON without `choices`, or is a
\* completion whose message content is a text with or without a code fence.
Responses(instructions) ==
    {[kind |-> "exception"]} \cup
    {[kind |-> "response", status_code |-> c, body |-> [json |-> "invalid"]] : c \in TransientStatus \cup {401}} \cup
    {[kind |-> "response", status_code |-> 200, body |-> [json |-> j]] : j \in {"invalid", "no_choices"}} \cup
    {[kind |-> "response", status_code |-> 200, body |-> [json |-> "completion", content |-> [fence |-> f, text |-> t]]] :
        f \in BOOLEAN, t \in ContentTexts(instructions)}

\* lines 87 and 104: the 1.5 seconds of time.sleep(1.5 * attempt), in tenths
\* of a second.
base_delay == 15

\* Lines 53-62: the text inside the code fence, or the text itself.
_strip_code_fence(content) == content.text

\* The length of the array is not compared with the length of the request.
TryErrorButLength(r, n) ==
    IF r.kind = "exception" THEN "ConnectionError"
    ELSE IF r.status_code >= 400 THEN "HTTPError"
    ELSE IF r.body.json = "invalid" THEN "JSONDecodeError"
    ELSE IF r.body.json # "completion" THEN "KeyError"
    ELSE LET content == _strip_code_fence(r.body.content)
         IN IF content.json = "empty" THEN "Empty translation returned by API."
            ELSE IF content.json = "invalid" THEN "JSONDecodeError"
            ELSE IF content.json # "list" THEN "API response is not a JSON array."
            ELSE ""

\* Lines 85 and 89-101: the exception the try block raises for the response
\* r to a request of n instructions, "" when it reaches the return.
TryError(r, n) ==
    IF r.kind = "exception" THEN "ConnectionError"
    ELSE IF r.status_code >= 400 THEN "HTTPError"
    ELSE IF r.body.json = "invalid" THEN "JSONDecodeError"
    ELSE IF r.body.json # "completion" THEN "KeyError"
    ELSE LET content == _strip_code_fence(r.body.content)
         IN IF content.json = "empty" THEN "Empty translation returned by API."
            ELSE IF content.json = "invalid" THEN "JSONDecodeError"
            ELSE IF content.json # "list" THEN "API response is not a JSON array."
            ELSE IF Len(content.items) # n THEN "API response length does not match input batch size."
            ELSE ""

\* The loop makes one attempt more than max_retries.
AttemptsOneMore(n) == 1..(n + 1)

\* line 83: range(1, max_retries + 1)
Attempts(n) == 1..n

\* line 86
IsTransient(r) == r.kind = "response" /\ r.status_code \in TransientStatus

\* call_api_batch is entered with any request and any max_retries from 0 on;
\* line 82 is done.
InitClient ==
    /\ source = <<>>
    /\ disk = [p \in AllPaths |-> IF p = out_dir_path THEN Dir ELSE Absent]
    /\ pc = "idle"
    /\ err = ""
    /\ args = NoArgs
    /\ data = <<>>
    /\ lang_i = 0
    /\ done_indices = {}
    /\ cache = EmptyCache
    /\ out_items = <<>>
    /\ start = 0
    /\ loaded = FALSE
    /\ adopted = NotAdopted
    /\ wrote = FALSE
    /\ calls = 0
    /\ submitted = NoneSubmitted
    /\ clientDet = TRUE
    /\ runs = 0
    /\ prev = "none"
    /\ request \in Requests
    /\ retries \in 0..MaxRetries
    /\ attempt = 0
    /\ resp = NoResp
    /\ last_err = None
    /\ cpc = "for"
    /\ posts = 0
    /\ returned = NoValue
    /\ slept = <<>>

\* line 83: the loop takes its next value.
ForNext ==
    /\ cpc = "for"
    /\ attempt + 1 \in Attempts(retries)
    /\ attempt' = attempt + 1
    /\ cpc' = "post"
    /\ UNCHANGED <<translator, request, retries, resp, last_err, posts, returned, slept>>

\* line 85: the request is sent and answered, or requests.post raises.
Post ==
    /\ cpc = "post"
    /\ \E r \in Responses(request) : resp' = r
    /\ posts' = posts + 1
    /\ cpc' = "handle"
    /\ UNCHANGED <<translator, request, retries, attempt, last_err, returned, slept>>

\* lines 86-88: a transient status.
Transient ==
    /\ cpc = "handle"
    /\ IsTransient(resp)
    /\ cpc' = "sleep"
    /\ UNCHANGED <<translator, request, retries, attempt, resp, last_err, posts, returned, slept>>

\* lines 89-103: the try block raises, and the handler keeps the exception.
Except ==
    /\ cpc = "handle"
    /\ ~IsTransient(resp)
    /\ TryError(resp, Len(request)) # ""
    /\ last_err' = TryError(resp, Len(request))
    /\ cpc' = "sleep"
    /\ UNCHANGED <<translator, request, retries, attempt, resp, posts, returned, slept>>

\* lines 89-101: the array is returned.
Return ==
    /\ cpc = "handle"
    /\ ~IsTransient(resp)
    /\ TryError(resp, Len(request)) = ""
    /\ returned' = _strip_code_fence(resp.body.content)
    /\ cpc' = "returned"
    /\ UNCHANGED <<translator, request, retries, attempt, resp, last_err, posts, slept>>

\* lines 87 and 104: time.sleep(1.5 * attempt)
Sleep ==
    /\ cpc = "sleep"
    /\ slept' = Append(slept, base_delay * attempt)
    /\ resp' = NoResp
    /\ cpc' = "for"
    /\ UNCHANGED <<translator, request, retries, attempt, last_err, posts, returned>>

\* line 105: the loop is exhausted.
Raise ==
    /\ cpc = "for"
    /\ attempt + 1 \notin Attempts(retries)
    /\ cpc' = "raised"
    /\ UNCHANGED <<translator, request, retries, attempt, resp, last_err, posts, returned, slept>>

NextClient ==
    \/ ForNext
    \/ Post
    \/ Transient
    \/ Except
    \/ Return
    \/ Sleep
    \/ Raise

\* One thread runs call_api_batch, and requests.post (with its timeout) and
\* time.sleep return: a step that can be taken is taken.
SpecClient == InitClient /\ [][NextClient]_vars /\ WF_vars(NextClient)

(* ------------- a checkpoint file the program did not write -------------- *)

\* The entries of a done_indices list somebody wrote: the integers from -1
\* to n, a float that int() cuts to 0, a numeral and another string, true
\* and null.
OtherEntries == {JFloat(-5), JStr("1"), JStr("x"), JBool(TRUE), JNull}
IntEntries(n) == {JInt(i) : i \in -1..n}

\* done_indices of such a file: not a list, or a list of up to two entries,
\* at most one of them not an integer.
HandMadeDone(n) ==
    {JNull, JStr("0")} \cup
    {JList(<<>>)} \cup
    {JList(<<e>>) : e \in IntEntries(n) \cup OtherEntries} \cup
    {JList(<<e, f>>) : e \in IntEntries(n), f \in IntEntries(n) \cup OtherEntries} \cup
    {JList(<<e, f>>) : e \in OtherEntries, f \in IntEntries(n)}

\* done_indices of such a file that is a list of indices, in any order and
\* with repetitions.
ListedDone(n) ==
    {JList(<<>>)} \cup
    {JList(<<i>>) : i \in {JInt(j) : j \in 0..(n - 1)}} \cup
    {JList(<<i, j>>) : i \in {JInt(k) : k \in 0..(n - 1)}, j \in {JInt(k) : k \in 0..(n - 1)}}

\* items of such a file over the records: a list of the right length with
\* every entry null or a translated record.
FilledOrNull(records, name) ==
    {JList(l) : l \in {g \in [1..Len(records) -> {Null} \cup {Translated(records, name, i) : i \in 1..Len(records)}] :
                          \A i \in 1..Len(records) : g[i] # Null => g[i] = Translated(records, name, i)}}

\* items of such a file: also not a list, and a list one entry too long.
HandMadeItems(records, name) ==
    FilledOrNull(records, name) \cup
    {JNull, JDict(EmptyCache), JList([i \in 1..(Len(records) + 1) |-> Null])}

\* The values of a cache that are not strings: null, a number, a list, an object.
NonStrings == {JNull, JInt(7), JList(<<>>), JDict(EmptyCache)}

\* cache of such a file with every value a string: the translations of some
\* of the strings.
FlatCaches(strings, name) ==
    {JDict([k \in K |-> JStr(Translate(name, k))]) : K \in SUBSET strings}

\* cache of such a file: also not an object, and an object one of whose
\* values is not a string.
HandMadeCaches(strings, name) ==
    FlatCaches(strings, name) \cup
    {JNull, JList(<<>>)} \cup
    {JDict([k \in K |-> IF k = bad THEN v ELSE JStr(Translate(name, k))]) :
        K \in SUBSET strings, bad \in strings, v \in NonStrings}

\* The Run-Key fields of a checkpoint of the usual run over the records.
UsualKeyFields(records) ==
    [version |-> PROGRESS_VERSION,
     source_path |-> Resolve(UsualKey.data_path),
     source_size |-> Len(records),
     model |-> UsualKey.model,
     base_url |-> UsualKey.base_url,
     lang_code |-> "ru"]

\* The JSON texts somebody may have put at the checkpoint path of the usual
\* run: a text that is no object, and objects with the run's own Run Key
\* whose items and done_indices are anything with a flat or missing cache,
\* or whose cache is anything with well-formed items and listed indices.
HandMadeStates(records) ==
    LET name == DEFAULT_LANGS["ru"]
        strings == {Instruction(records[i]) : i \in 1..Len(records)}
        key == UsualKeyFields(records)
    IN {JList(<<>>)} \cup
       {JDict(key @@ [items |-> it, done_indices |-> d, cache |-> c]) :
           it \in HandMadeItems(records, name), d \in HandMadeDone(Len(records)),
           c \in {JDict(EmptyCache), JNull}} \cup
       {JDict(key @@ [items |-> it, done_indices |-> d]) :
           it \in FilledOrNull(records, name), d \in ListedDone(Len(records))} \cup
       {JDict(key @@ [items |-> it, done_indices |-> d, cache |-> c]) :
           it \in FilledOrNull(records, name), d \in ListedDone(Len(records)),
           c \in HandMadeCaches(strings, name)}

\* The checkpoint path of the usual run.
UsualProgressPath == _progress_path(Stem(UsualKey.data_path), "ru")

\* Before the run, the checkpoint path holds a text that is not JSON or one
\* of the hand-made JSON texts.
InitCheckpoint ==
    /\ source \in {d \in Datasets : Len(d) < MaxTotal}
    /\ disk \in {[p \in AllPaths |-> IF p = out_dir_path THEN Dir
                                     ELSE IF p = UsualProgressPath THEN f
                                     ELSE Absent] :
                    f \in {Partial} \cup {HandMadeFile(st) : st \in HandMadeStates(source)}}
    /\ pc = "idle"
    /\ err = ""
    /\ args = NoArgs
    /\ data = <<>>
    /\ lang_i = 0
    /\ done_indices = {}
    /\ cache = EmptyCache
    /\ out_items = <<>>
    /\ start = 0
    /\ loaded = FALSE
    /\ adopted = NotAdopted
    /\ wrote = FALSE
    /\ calls = 0
    /\ submitted = NoneSubmitted
    /\ clientDet = TRUE
    /\ runs = 0
    /\ prev = "none"
    /\ ClientIdle

\* The one run over that file.
FirstRun ==
    /\ runs = 0
    /\ StartRun

NextCheckpoint ==
    \/ FirstRun
    \/ BeginLang
    \/ Load
    \/ SkipBatch
    \/ BatchHits
    \/ BatchCall
    \/ ClientFails
    \/ WriteTmp
    \/ Replace
    \/ LoopExit
    \/ WriteOut
    \/ Unlink
    \/ NextLang
    \/ Exit

SpecCheckpoint == InitCheckpoint /\ [][NextCheckpoint]_vars

(* ------------- runs of one Run Key that all resume ---------------------- *)

\* The arguments of a run of the usual Run Key with resume enabled and no
\* force restart; the batch size is free.
ResumeArgValues ==
    {a \in ArgValues : a.resume /\ ~a.force_restart /\ \A f \in DOMAIN UsualKey : a[f] = UsualKey[f]}

\* A process starts translate_dataset with such arguments.
ResumeRun ==
    /\ Stopped
    /\ runs < MaxRuns
    /\ \E a \in ResumeArgValues : translate_dataset(a)

\* The steps of translate_dataset that neither raise from the Client nor
\* are a kill of the process.
Steps ==
    \/ BeginLang
    \/ Load
    \/ SkipBatch
    \/ BatchHits
    \/ BatchCall
    \/ WriteTmp
    \/ Replace
    \/ LoopExit
    \/ WriteOut
    \/ Unlink
    \/ NextLang

NextResume ==
    \/ ResumeRun
    \/ BeginLang
    \/ Load
    \/ SkipBatch
    \/ BatchHits
    \/ BatchCall
    \/ ClientFails
    \/ WriteTmp
    \/ Replace
    \/ LoopExit
    \/ WriteOut
    \/ Unlink
    \/ NextLang
    \/ Exit
    \/ Crash
    \/ CrashInCheckpointWrite
    \/ CrashInOutputWrite

\* translate_dataset is one thread whose file operations return and whose
\* Client call returns or raises (call_api_batch makes at most max_retries
\* requests, each with a timeout): a process that is not killed and whose
\* Client call does not raise takes its next step.
SpecResume == Init /\ [][NextResume]_vars /\ WF_vars(Steps)

(* ------------------------------- the claims ----------------------------- *)

\* A language has just been finished without error: line 318 is reached.
LangFinished == pc = "next"

ProgressFile == disk[progress_path]
OutFile == disk[out_path]

\* What one uninterrupted run writes when the Client answers Translate.
UninterruptedOutput(records, name) ==
    [i \in 1..Len(records) |-> [records[i] EXCEPT !.instruction = Translate(name, records[i].instruction)]]

\* C1: with a Client that is a function of each input string, a language
\* finished after any interrupted earlier run and a resume has written the
\* output array that a single uninterrupted run writes.
C1_IdempotentResume ==
    (LangFinished /\ clientDet) => OutFile = JsonFile(UninterruptedOutput(data, lang_name))

\* C1: the second run adopted the checkpoint a Client failure of the first
\* run left behind, called the Client again and finished.
C1_Witness ==
    /\ LangFinished
    /\ clientDet
    /\ runs = 2
    /\ prev = "client"
    /\ loaded
    /\ calls >= 1
    /\ total = 3

\* C3: when a language is finished without error, done_indices is exactly
\* 0..total-1, no output entry is null, the output file holds total
\* elements and the checkpoint file is gone.
C3_CompletionInvariant ==
    LangFinished =>
        /\ done_indices = 0..(total - 1)
        /\ \A i \in 1..Len(out_items) : out_items[i] # Null
        /\ OutFile.kind = "json"
        /\ Len(OutFile.content) = total
        /\ ~Exists(progress_path)

\* C3: a language is finished whose run wrote checkpoints.
C3_Witness ==
    /\ LangFinished
    /\ wrote
    /\ total = 3

\* call_api_batch has raised and the exception has left translate_dataset.
ClientFailed == pc = "failed" /\ err = "client"

Distinct(records) ==
    \A i, j \in 1..Len(records) : i # j => Instruction(records[i]) # Instruction(records[j])

C4_NoDuplicateRequests == \A s \in Strings : submitted[s] <= 1

\* The checkpoint on disk differs from the current run in a Run-Key field.
KeyDiffers ==
    LET c == ProgressFile.content
    IN \/ c.source_path # Resolve(args.data_path)
       \/ c.source_size # total
       \/ c.model # args.model
       \/ c.base_url # args.base_url
       \/ c.lang_code # lang_code

\* C5: a resuming run that finds a checkpoint differing in a Run-Key field
\* ends at the load step with the mismatch error (or is killed there), having
\* made no Client call and leaving every file as it is.
C5_MismatchRejection ==
    [][(pc = "load" /\ args.resume /\ ProgressFile.kind = "json" /\ KeyDiffers) =>
          /\ \/ pc' = "failed" /\ err' = "mismatch"
             \/ pc' = "exited" /\ prev' = "crashed"
          /\ calls = 0
          /\ calls' = 0
          /\ disk' = disk]_vars

\* C5: a run configured for one model has rejected the checkpoint written
\* for another model.
C5_Witness ==
    /\ pc = "failed"
    /\ err = "mismatch"
    /\ args.resume
    /\ ProgressFile.content.model # args.model
    /\ ProgressFile.content.base_url = args.base_url
    /\ ProgressFile.content.source_path = Resolve(args.data_path)
    /\ ProgressFile.content.source_size = total
    /\ calls = 0

ProgressPaths == {_progress_path(Stem(p), l) : p \in DataPaths, l \in LangCodes}
TmpPaths == {TmpPath(p) : p \in ProgressPaths}

\* The checkpoint passes validation for the configuration recorded in it.
ValidForOwnKey(c) ==
    _validate_progress_state(JsonValue(c), c.source_path, c.source_size, c.model, c.base_url, c.lang_code).result = "ok"

\* C6: at every step, crashes included, a checkpoint file at its final path
\* is a complete checkpoint that passes validation for the configuration of
\* the run that wrote it; a torn text exists only at the temporary path.
C6_CheckpointAtomicity ==
    /\ \A p \in ProgressPaths :
          /\ disk[p].kind \in {"absent", "json"}
          /\ disk[p].kind = "json" => ValidForOwnKey(disk[p].content)
    /\ (wrote /\ Exists(progress_path)) =>
          /\ ProgressFile.kind = "json"
          /\ _validate_progress_state(JsonValue(ProgressFile.content), args.data_path, total, args.model, args.base_url, lang_code).result = "ok"

\* C6: the process was killed inside a checkpoint write; the torn text is at
\* the temporary path and the previous checkpoint is intact.
C6_Witness ==
    /\ pc = "exited"
    /\ prev = "crashed"
    /\ \E p \in ProgressPaths :
          /\ disk[TmpPath(p)].kind = "partial"
          /\ disk[p].kind = "json"

IsStrictlyAscending(list) == \A i, j \in 1..Len(list) : i < j => list[i] < list[j]

WellFormedProgress(c) ==
    /\ Len(c.items) = c.source_size
    /\ IsStrictlyAscending(c.done_indices)
    /\ \A k \in 1..Len(c.done_indices) :
          /\ c.done_indices[k] \in 0..(c.source_size - 1)
          /\ c.items[c.done_indices[k] + 1] # Null

\* C7: every checkpoint text written, at the temporary or the final path, has
\* items of the length of the dataset, done_indices strictly ascending within
\* 0..total-1, and a non-null item at every done index.
C7_ProgressStateValid ==
    /\ \A p \in ProgressPaths \cup TmpPaths :
          disk[p].kind = "json" => WellFormedProgress(disk[p].content)
    /\ (wrote /\ Exists(progress_path)) => ProgressFile.content.source_size = total

\* C7: a checkpoint with two positions done and one pending.
C7_Witness ==
    \E p \in ProgressPaths :
        /\ disk[p].kind = "json"
        /\ Len(disk[p].content.done_indices) = 2
        /\ \E i \in 1..Len(disk[p].content.items) : disk[p].content.items[i] = Null

\* C8: in every checkpoint text written, the instruction of every done
\* position is a key of the cache.
C8_CacheCoverage ==
    \A p \in ProgressPaths \cup TmpPaths :
        disk[p].kind = "json" =>
            \A k \in 1..Len(disk[p].content.done_indices) :
                Instruction(source[disk[p].content.done_indices[k] + 1]) \in DOMAIN disk[p].content.cache

\* C8: a resumed run has written a checkpoint with two cached strings.
C8_Witness ==
    /\ loaded
    /\ wrote
    /\ ProgressFile.kind = "json"
    /\ Len(ProgressFile.content.done_indices) >= 2
    /\ Cardinality(DOMAIN ProgressFile.content.cache) >= 2

\* C9 as stated: in the finalized output, positions with equal source
\* instructions carry the same translated instruction.
C9_SharedTranslation ==
    LangFinished =>
        \A i, j \in 1..Len(OutFile.content) :
            Instruction(source[i]) = Instruction(source[j]) =>
                OutFile.content[i].instruction = OutFile.content[j].instruction

\* C10: the finalized output has the length and order of the input; element
\* i has the fields of input record i, each unchanged but the instruction,
\* which is a translation of record i's instruction into the language (the
\* Translate one when the Client is deterministic); the loaded records are
\* as they were read.
C10_OutputShape ==
    LangFinished =>
        /\ OutFile.kind = "json"
        /\ Len(OutFile.content) = Len(source)
        /\ data = source
        /\ \A i \in 1..Len(source) :
              /\ DOMAIN OutFile.content[i] = DOMAIN source[i]
              /\ \A f \in DOMAIN source[i] \ {"instruction"} : OutFile.content[i][f] = source[i][f]
              /\ OutFile.content[i].instruction \in Replies(lang_name, source[i].instruction)
              /\ clientDet => OutFile.content[i].instruction = Translate(lang_name, source[i].instruction)

\* C10: an output of three records, some translated the other way.
C10_Witness ==
    /\ LangFinished
    /\ total = 3
    /\ ~clientDet
    /\ Len(OutFile.content) = 3

OutPaths == {OutPath(Stem(p), l) : p \in DataPaths, l \in LangCodes}

\* Every position is done and every output entry is filled.
Complete ==
    /\ done_indices = 0..(total - 1)
    /\ \A i \in 1..Len(out_items) : out_items[i] # Null

\* C11: a complete JSON text is put at an output path only by the write of
\* line 312, in a state where every position is in done_indices and every
\* output entry is non-null, and it is that output array; when the loop is
\* over with a position not done or an entry null, the next step raises the
\* incomplete-run error (or the process is killed) and no file is touched.
C11_FinalizeOnlyWhenComplete ==
    [][/\ \A p \in OutPaths :
             (disk'[p] # disk[p] /\ disk'[p].kind = "json") =>
                 /\ pc = "write_out"
                 /\ p = out_path
                 /\ Complete
                 /\ disk'[p] = JsonFile(out_items)
       /\ (pc = "loop" /\ start >= total /\ ~Complete) =>
             /\ \/ pc' = "failed" /\ err' = "incomplete"
                \/ pc' = "exited" /\ prev' = "crashed"
             /\ disk' = disk]_vars

\* C11: the loop ended with all three positions in done_indices but an
\* output entry null, and the run has failed with no output file.
C11_Witness ==
    /\ pc = "failed"
    /\ err = "incomplete"
    /\ total = 3
    /\ done_indices = 0..2
    /\ \E i \in 1..3 : out_items[i] = Null
    /\ ~Exists(out_path)

\* A fatal error of one language's run has left translate_dataset: the
\* Client's retries exhausted, or the checkpoint corrupt, mismatched or invalid.
FatalForLanguage ==
    /\ pc = "failed"
    /\ err \in {"client", "corrupt", "mismatch", "items_shape", "out_of_range", "null_item"}

\* C12 as stated: when one language's run has aborted with a fatal error,
\* the other requested languages are still processed, those later in the
\* list included: translate_dataset does not end with a language after the
\* failed one never started.
C12_OtherLanguagesProcessed == FatalForLanguage => lang_i = Len(args.langs)

\* Every translation in the cache c was returned for the language `name`.
CacheOfLanguage(c, name) == \A s \in DOMAIN c : c[s] \in Replies(name, s)

\* Every filled entry of the output array is a translation into `name` of
\* the record at its position.
ItemsOfLanguage(items, name) ==
    \A i \in 1..Len(items) :
        items[i] # Null => items[i].instruction \in Replies(name, Instruction(source[i]))

\* The process is inside the body of the loop over langs, past line 235.
InLanguageBody == pc \in {"load", "loop", "write_tmp", "replace", "write_out", "unlink", "next"}

\* C13: two languages have different checkpoint, temporary and output
\* paths; a language's run starts with an empty cache; the cache and output
\* array in memory hold only translations returned for the language being
\* processed, and so do the checkpoint texts and the output file at each
\* language's paths, whose checkpoint also records that language's code.
C13_StateIsolation ==
    /\ \A l1, l2 \in LangCodes :
          l1 # l2 =>
              /\ _progress_path(base_name, l1) # _progress_path(base_name, l2)
              /\ TmpPath(_progress_path(base_name, l1)) # TmpPath(_progress_path(base_name, l2))
              /\ OutPath(base_name, l1) # OutPath(base_name, l2)
    /\ pc = "load" => cache = EmptyCache /\ done_indices = {}
    /\ InLanguageBody =>
          /\ CacheOfLanguage(cache, lang_name)
          /\ ItemsOfLanguage(out_items, lang_name)
    /\ \A l \in LangCodes :
          /\ \A p \in {_progress_path("source", l), TmpPath(_progress_path("source", l))} :
                disk[p].kind = "json" =>
                    /\ disk[p].content.lang_code = l
                    /\ CacheOfLanguage(disk[p].content.cache, DEFAULT_LANGS[l])
                    /\ ItemsOfLanguage(disk[p].content.items, DEFAULT_LANGS[l])
          /\ disk[OutPath("source", l)].kind = "json" =>
                ItemsOfLanguage(disk[OutPath("source", l)].content, DEFAULT_LANGS[l])

\* C13: the second language is finished after the first, both over the same
\* two instructions, each with its own Client calls and its own output file.
C13_Witness ==
    /\ pc = "next"
    /\ lang_i = 2
    /\ total = 2
    /\ calls >= 1
    /\ disk[OutPath("source", "ru")].kind = "json"
    /\ disk[OutPath("source", "zh")].kind = "json"
    /\ disk[OutPath("source", "ru")].content # disk[OutPath("source", "zh")].content

\* The errors of the configuration: lines 217-222 and the lookup of line 225.
ConfigErrors == {"batch_size", "timeout", "max_retries", "KeyError"}

\* C14 as stated: a call of translate_dataset that fails with a
\* configuration error at its start has created no directory and no file,
\* and one that has failed with any configuration error in an empty output
\* directory has made no Client call and has left it without any file.
C14_NoPartialWork ==
    /\ [][(Stopped /\ pc' = "failed" /\ err' \in ConfigErrors) => disk' = disk]_vars
    /\ []((pc = "failed" /\ err \in ConfigErrors /\ runs = 1) =>
              /\ calls = 0
              /\ \A p \in AllPaths \ {out_dir_path} : disk[p] = Absent)

\* The files are untouched and no Client call was made when the unknown
\* language code is found: the part of C14 about work done for the
\* languages before it in the list.
C14_UnknownLanguageNoWork ==
    (pc = "failed" /\ err = "KeyError" /\ runs = 1) =>
        /\ calls = 0
        /\ \A p \in AllPaths \ {out_dir_path} : disk[p] = Absent

\* The FRESH state of lines 233-235.
Fresh ==
    /\ done_indices = {}
    /\ cache = EmptyCache
    /\ out_items = [i \in 1..total |-> Null]

\* C15: in a run with force_restart set, whatever the resume flag and
\* whatever checkpoint was at the path, no checkpoint is adopted, and until
\* the run has written its own first checkpoint there is no file at the
\* checkpoint path and the state is FRESH, at the first batch.
C15_ForceRestart ==
    (InLanguageBody /\ args.force_restart) =>
        /\ ~loaded
        /\ adopted = NotAdopted
        /\ (pc \in {"load", "loop"} /\ ~wrote) =>
              /\ ~Exists(progress_path)
              /\ Fresh
              /\ start = 0

\* C15: a run with resume and force_restart both set is past line 235 with
\* no checkpoint file, after an earlier run over at least one record was
\* killed while writing its output file, its checkpoint still in place.
C15_Witness ==
    /\ pc = "load"
    /\ args.force_restart
    /\ args.resume
    /\ runs = 2
    /\ total >= 2
    /\ OutFile = Partial
    /\ ~Exists(progress_path)
    /\ Fresh

\* The positions on whose behalf the Client call of this batch passes an
\* instruction: the pending positions that miss the cache.
RequestedPositions == {pending_positions[missing_indices[j]] : j \in 1..Len(missing_indices)}

\* C16: in a run that adopted a checkpoint, no Client call, returning or
\* raising, passes an instruction on behalf of a position of the adopted
\* done_indices, and when the language is finished the output file has, at
\* every such position, the entry the adopted checkpoint had there.
C16_IdempotentSkip ==
    /\ [][(pc = "loop" /\ loaded /\ calls' = calls + 1) =>
              RequestedPositions \cap adopted.done_indices = {}]_vars
    /\ []((LangFinished /\ loaded) =>
              \A i \in adopted.done_indices : OutFile.content[i + 1] = adopted.out_items[i + 1])

\* C16: a run that adopted a checkpoint with some but not all of three
\* positions done has called the Client and finished.
C16_Witness ==
    /\ LangFinished
    /\ loaded
    /\ total = 3
    /\ adopted.done_indices # {}
    /\ adopted.done_indices # 0..2
    /\ calls >= 1

\* C17: a file at a checkpoint path goes away in two kinds of step only:
\* the unlink of line 317, taken when every position is done and the output
\* file already holds the complete output array, and the unlink of line 231
\* at the start of a language's run with force_restart set.
C17_CheckpointDeletion ==
    [][\A p \in ProgressPaths :
          (disk[p].kind # "absent" /\ disk'[p].kind = "absent") =>
              \/ /\ pc = "unlink"
                 /\ p = progress_path
                 /\ Complete
                 /\ OutFile = JsonFile(out_items)
              \/ /\ pc = "lang"
                 /\ args.force_restart
                 /\ p = progress_path]_vars

\* C17: a run that adopted a checkpoint has written its output and then
\* deleted the checkpoint.
C17_Witness ==
    /\ pc = "next"
    /\ loaded
    /\ total >= 1
    /\ OutFile = JsonFile(out_items)
    /\ ~Exists(progress_path)

\* The file at this language's checkpoint path was written under a Run Key
\* that is not the current run's.
ForeignCheckpoint ==
    /\ ProgressFile.kind = "json"
    /\ KeyDiffers

\* C18 as stated, for the runs without force restart: a checkpoint file
\* written under a different Run Key is not overwritten.
C18_NeverSharesProgressFile ==
    [][(Running /\ ~args.force_restart /\ ForeignCheckpoint) =>
          disk'[progress_path] = disk[progress_path]]_vars

\* C18, amended: a checkpoint is adopted only from a file that carries the
\* run's own Run Key, and a run with resume set and force_restart not set
\* that finds a file of a different Run Key at its checkpoint path changes no
\* file and ends at the load step.
C18_NeverAdoptsForeignCheckpoint ==
    /\ [][(pc = "load" /\ loaded') =>
              /\ ProgressFile.kind = "json"
              /\ ~KeyDiffers
              /\ adopted'.out_items = ProgressFile.content.items]_vars
    /\ [][(Running /\ args.resume /\ ~args.force_restart /\ ForeignCheckpoint) =>
              /\ disk' = disk
              /\ ~loaded'
              /\ pc' \in {"load", "failed", "exited"}]_vars

\* C18: a resuming run for one endpoint has refused the checkpoint of a run
\* for another endpoint, which is still in place with a position done.
C18_Witness ==
    /\ pc = "failed"
    /\ err = "mismatch"
    /\ args.resume
    /\ ~args.force_restart
    /\ ProgressFile.kind = "json"
    /\ ProgressFile.content.base_url # args.base_url
    /\ ProgressFile.content.done_indices # <<>>

\* C19: whatever the endpoint replies in each attempt, a value is returned
\* only by the return of line 101, and it is an array of exactly as many
\* elements as the request has instructions; in every other state, the
\* raised one included, nothing has been returned.
C19_NeverPartiallyCommits ==
    /\ cpc = "returned" =>
          /\ returned.json = "list"
          /\ Len(returned.items) = Len(request)
    /\ cpc # "returned" => returned = NoValue

\* C19: an array one element short or long was refused in an earlier
\* attempt, and a later attempt has returned an array of two for a request
\* of two.
C19_Witness ==
    /\ cpc = "returned"
    /\ Len(request) = 2
    /\ posts >= 2
    /\ last_err = "API response length does not match input batch size."
    /\ Len(returned.items) = 2

\* The reply is a 200 completion whose content is an array of as many
\* elements as the request.
ValidReply(r, instructions) ==
    /\ r.kind = "response"
    /\ r.status_code = 200
    /\ r.body.json = "completion"
    /\ r.body.content.text.json = "list"
    /\ Len(r.body.content.text.items) = Len(instructions)

\* The reply has a transient status, or is a 200 reply that cannot be
\* parsed, is not an array, or is an array of the wrong length.
RetryCause(r, instructions) ==
    \/ r.kind = "response" /\ r.status_code \in {429, 500, 502, 503, 504}
    \/ /\ r.kind = "response"
       /\ r.status_code = 200
       /\ ~ValidReply(r, instructions)

Finished == cpc \in {"returned", "raised"}

\* C20: one call sends at most max_retries requests, the k-th in attempt k;
\* after a reply with a transient status, an unparseable or non-list reply
\* or an array of the wrong length it sleeps and, when k < max_retries,
\* sends the next request; at the first valid reply it returns, and nothing
\* is sent after that; it raises only after max_retries requests have
\* failed; and every call ends, returning or raising.
C20_BoundedRetry ==
    /\ [](posts <= retries)
    /\ [](cpc \in {"handle", "sleep"} => posts = attempt)
    /\ [][(cpc = "handle" /\ RetryCause(resp, request)) => (cpc' = "sleep" /\ posts' = posts)]_vars
    /\ \A k \in 1..MaxRetries :
          (cpc = "handle" /\ attempt = k /\ k < retries /\ RetryCause(resp, request)) ~> (cpc = "handle" /\ posts = k + 1)
    /\ [][(cpc = "handle" /\ ValidReply(resp, request)) => (cpc' = "returned" /\ posts' = posts)]_vars
    /\ [][~Finished]_vars
    /\ [](cpc = "raised" => (posts = retries /\ Len(slept) = retries))
    /\ <>Finished

\* C20: with max_retries 3, three requests were sent, each followed by a
\* sleep, and the call has raised.
C20_Witness ==
    /\ cpc = "raised"
    /\ retries = 3
    /\ posts = 3
    /\ Len(slept) = 3

\* The failure of one attempt with the response r to a request of n
\* instructions: the transient status, or the exception of the try block.
AttemptError(r, n) == IF IsTransient(r) THEN "TransientStatus" ELSE TryError(r, n)

\* C21 as stated: when an attempt has failed (the wait after it begins), the
\* error kept for the final failure is the error of that attempt, a
\* transient status included, and it is carried unchanged from there to the
\* raise of line 105.
C21_CarriesLastError ==
    /\ [](cpc = "sleep" => last_err = AttemptError(resp, Len(request)))
    /\ [][(cpc \in {"sleep", "for"}) => (last_err' = last_err)]_vars

\* C21, the attempts that fail by an exception only: the error kept is the
\* exception of that attempt.
C21_CarriesLastException ==
    /\ [](cpc = "sleep" /\ ~IsTransient(resp) => last_err = TryError(resp, Len(request)))
    /\ [][(cpc \in {"sleep", "for"}) => (last_err' = last_err)]_vars

\* C21: every attempt of a call with max_retries 3 had a transient status
\* and the call has raised with no error kept.
C21_AllTransient ==
    /\ cpc = "raised"
    /\ retries = 3
    /\ posts = 3
    /\ last_err = None

\* C29 as stated: the k-th wait of a call lasts base_delay * k, the same
\* after a transient status and after an exception, and a call that raises
\* has waited only between its attempts, not after the last one.
C29_LinearBackoff ==
    /\ \A k \in 1..Len(slept) : slept[k] = base_delay * k
    /\ cpc = "raised" => Len(slept) = (IF posts = 0 THEN 0 ELSE posts - 1)

\* C29, the length of the waits only: the wait after failed attempt n lasts
\* base_delay * n, whatever the kind of the failure.
C29_WaitIsLinear ==
    [][slept' # slept =>
          /\ cpc = "sleep"
          /\ slept' = Append(slept, base_delay * attempt)
          /\ Len(slept') = attempt]_vars

\* The run is at line 236 with resume enabled and a file at its checkpoint path.
Resuming == pc = "load" /\ args.resume /\ Exists(progress_path)

C22_Adopted ==
    /\ pc = "loop"
    /\ loaded
    /\ done_indices = {0, 1}
    /\ ProgressFile.kind = "handmade"
    /\ ProgressFile.content.value.done_indices = JList(<<JInt(1), JInt(0)>>)

\* The cache of the parsed checkpoint is not an object, or has a value that
\* is not a string.
NotFlat(c) == c.type # "dict" \/ \E k \in DOMAIN c.value : c.value[k].type # "str"

\* C23 as stated, whatever the error is: when the run loads a checkpoint
\* object with its own Run Key whose cache is not a flat string-to-string
\* mapping, it fails and adopts nothing.
C23_NonFlatCacheNeverAdopted ==
    [][(/\ Resuming
        /\ disk[progress_path].kind = "handmade"
        /\ disk[progress_path].content.type = "dict"
        /\ NotFlat(Get(disk[progress_path].content.value, "cache"))) =>
          /\ pc' = "failed"
          /\ err' # ""
          /\ adopted' = NotAdopted
          /\ cache' = EmptyCache]_vars

\* C23, the cache that is no object only: the run fails and adopts nothing.
C23_RejectsNonObjectCache ==
    [][(/\ Resuming
        /\ disk[progress_path].kind = "handmade"
        /\ disk[progress_path].content.type = "dict"
        /\ Get(disk[progress_path].content.value, "cache").type # "dict") =>
          /\ pc' = "failed"
          /\ err' # ""
          /\ adopted' = NotAdopted
          /\ cache' = EmptyCache]_vars

\* C23: the run has adopted the checkpoint whose cache has null for the
\* instruction of its one record, the file still being there.
C23_NonStringValueAdopted ==
    /\ pc = "loop"
    /\ loaded
    /\ total = 1
    /\ ProgressFile.kind = "handmade"
    /\ Get(ProgressFile.content.value, "cache") = JDict([k \in {Instruction(source[1])} |-> JNull])
    /\ DOMAIN cache = {Instruction(source[1])}

\* C24: a run with resume enabled and no force restart that finds a text
\* that is not JSON at its checkpoint path fails at the load of line 237,
\* with no Client call made and nothing adopted, instead of going on from
\* the FRESH state; neither the steps up to the failure nor the failure
\* change any file, so the text is still at the checkpoint path afterwards.
C24_UnparseableCheckpointIsFatal ==
    /\ [][(/\ pc \in {"lang", "load"}
           /\ args.resume
           /\ ~args.force_restart
           /\ disk[progress_path].kind = "partial") =>
             /\ disk' = disk
             /\ calls' = 0
             /\ pc = "load" =>
                   /\ pc' = "failed"
                   /\ err' = "corrupt"
                   /\ adopted' = NotAdopted
                   /\ ~loaded']_vars
    /\ []((pc = "failed" /\ err = "corrupt") =>
             /\ calls = 0
             /\ ProgressFile = Partial
             /\ ~Exists(out_path)
             /\ ~wrote)

\* C24: the run has failed on the unparseable checkpoint of a dataset of
\* two records.
C24_Witness ==
    /\ pc = "failed"
    /\ err = "corrupt"
    /\ total = 2
    /\ args.resume
    /\ ProgressFile = Partial

\* The positions the checkpoint file of this run records as done: those of
\* the file the run adopted or wrote; once the run has written its output,
\* every position.
RecordedDone ==
    IF pc \in {"unlink", "next", "done"} /\ OutFile = JsonFile(out_items) THEN 0..(total - 1)
    ELSE IF (loaded \/ wrote) /\ ProgressFile.kind = "json" THEN Range(ProgressFile.content.done_indices)
    ELSE {}

\* The positions done in memory that a crash now would lose.
Unrecorded == done_indices \ RecordedDone

\* The positions of the batch that begins at position s.
BatchAt(s) == s..(s + args.batch_size - 1)

\* C25: while a language is processed, the positions done in memory but not
\* recorded in the checkpoint file all lie in the current batch, and when a
\* batch begins (and when the loop is over) there is none: the checkpoint
\* of a batch that processed a position is in place before the next batch.
C25_AtMostOneBatchLost ==
    (pc \in {"loop", "write_tmp", "replace", "write_out", "unlink", "next", "done"} /\ lang_i > 0) =>
        /\ Unrecorded \subseteq BatchAt(start)
        /\ pc \notin {"write_tmp", "replace"} => Unrecorded = {}

\* C25: the second batch of a run is merged and not yet in the checkpoint
\* file, which records the first batch.
C25_Witness ==
    /\ pc = "replace"
    /\ wrote
    /\ args.batch_size = 2
    /\ Unrecorded = {2}
    /\ RecordedDone = {0, 1}

\* The pending positions of the current batch, and those of them whose
\* instruction is not a key of the cache.
PendingOf == {i \in BatchAt(start) \cap 0..(total - 1) : i \notin done_indices}
Misses == {i \in PendingOf : Instruction(data[i + 1]) \notin DOMAIN cache}

\* C26: a Client call is made only from the top of a batch with a pending
\* cache miss, once, and the batch is left before the loop comes back; the
\* list passed is the instructions of the miss positions in ascending
\* order; when it returns, every miss position gets a reply to its own
\* instruction, which is also cached, and every pending hit position gets
\* the cached value. A batch with pending positions and no miss makes no
\* call, marks its pending positions done, and the checkpoint with them is
\* written and put in place before the next batch.
C26_OneCallForMisses ==
    /\ [][calls' > calls =>
             /\ pc = "loop"
             /\ calls' = calls + 1
             /\ Misses # {}
             /\ pc' \in {"write_tmp", "failed"}
             /\ start' = start
             /\ to_translate = [k \in 1..Cardinality(Misses) |-> Instruction(data[Sorted(Misses)[k] + 1])]
             /\ pc' = "write_tmp" =>
                   /\ \A s \in Strings :
                         submitted'[s] = submitted[s] + Cardinality({i \in Misses : Instruction(data[i + 1]) = s})
                   /\ \A i \in Misses :
                         /\ out_items'[i + 1].instruction \in Replies(lang_name, Instruction(data[i + 1]))
                         /\ cache'[Instruction(data[i + 1])] \in Replies(lang_name, Instruction(data[i + 1]))
                   /\ \A i \in PendingOf \ Misses :
                         out_items'[i + 1].instruction = cache[Instruction(data[i + 1])]
                   /\ done_indices' = done_indices \cup PendingOf]_vars
    /\ [][(pc \in {"write_tmp", "replace", "failed"} /\ pc' = "loop") =>
             (pc = "replace" /\ start' = start + args.batch_size)]_vars
    /\ [][(pc = "loop" /\ start < total /\ PendingOf # {} /\ Misses = {} /\ pc' # "exited") =>
             /\ calls' = calls
             /\ pc' = "write_tmp"
             /\ done_indices' = done_indices \cup PendingOf
             /\ \A i \in PendingOf : out_items'[i + 1].instruction = cache[Instruction(data[i + 1])]]_vars
    /\ [][(pc = "write_tmp" /\ pc' # "exited") =>
             /\ pc' = "replace"
             /\ disk'[TmpPath(progress_path)].kind = "json"
             /\ Range(disk'[TmpPath(progress_path)].content.done_indices) = done_indices]_vars
    /\ [][(pc = "replace" /\ pc' # "exited") =>
             /\ pc' = "loop"
             /\ disk'[progress_path] = disk[TmpPath(progress_path)]]_vars

\* C26: a run that adopted a checkpoint with nothing done and the first of
\* two different instructions cached has processed the batch of both with
\* one Client call.
C26_Witness ==
    /\ pc = "write_tmp"
    /\ loaded
    /\ args.batch_size = 2
    /\ total = 2
    /\ adopted.done_indices = {}
    /\ DOMAIN adopted.cache = {Instruction(source[1])}
    /\ Instruction(source[2]) # Instruction(source[1])
    /\ calls = 1
    /\ done_indices = {0, 1}

\* C26: with batches of one, a fresh run has made one Client call and has
\* marked two positions done, the second from the cache, its checkpoint
\* about to be put in place.
C26_AllHits ==
    /\ pc = "replace"
    /\ ~loaded
    /\ args.batch_size = 1
    /\ calls = 1
    /\ done_indices = {0, 1}
    /\ disk[TmpPath(progress_path)].kind = "json"

\* C27: a batch whose positions are all in done_indices is over in one step
\* that makes no Client call and changes neither done_indices, the cache,
\* the output array, the loaded records nor any file.
C27_DoneBatchChangesNothing ==
    [][(pc = "loop" /\ start < total /\ PendingOf = {} /\ pc' # "exited") =>
          /\ pc' = "loop"
          /\ start' = start + args.batch_size
          /\ calls' = calls
          /\ submitted' = submitted
          /\ UNCHANGED <<done_indices, cache, out_items, data, disk>>]_vars

\* C27: a resumed run has passed its first batch, all of it adopted as done,
\* with no Client call and no checkpoint write, and has positions left.
C27_Witness ==
    /\ pc = "loop"
    /\ loaded
    /\ start = args.batch_size
    /\ BatchAt(0) \subseteq adopted.done_indices
    /\ done_indices = adopted.done_indices
    /\ done_indices # 0..(total - 1)
    /\ calls = 0
    /\ ~wrote

\* C28: with zero records, a language that finds no checkpoint file, or
\* runs with resume disabled or with force restart, goes from the FRESH
\* state straight to the output write: no batch, no Client call, no
\* checkpoint write; the output written is the empty array, and afterwards
\* no file is at the checkpoint path, whatever was there before.
C28_EmptyDataset ==
    /\ [][(lang_i > 0 /\ total = 0 /\ pc' # "exited") =>
             /\ (pc = "load" /\ (~args.resume \/ args.force_restart \/ ~Exists(progress_path))) =>
                   (pc' = "loop" /\ ~loaded')
             /\ pc = "loop" => (pc' = "write_out" /\ UNCHANGED <<disk, calls, locals>>)
             /\ pc = "write_out" => (pc' = "unlink" /\ disk'[out_path] = JsonFile(<<>>))
             /\ pc = "unlink" => (pc' = "next" /\ disk'[progress_path] = Absent)]_vars
    /\ []((lang_i > 0 /\ total = 0 /\ pc \in {"next", "done"}) =>
             /\ OutFile = JsonFile(<<>>)
             /\ ProgressFile = Absent
             /\ disk[TmpPath(progress_path)] = Absent
             /\ calls = 0
             /\ ~wrote)

\* C28: a run with resume disabled over zero records has finished with the
\* empty output array and no checkpoint file, where a file was when it began.
C28_Witness ==
    /\ pc = "done"
    /\ total = 0
    /\ ~args.resume
    /\ ~args.force_restart
    /\ OutFile = JsonFile(<<>>)
    /\ ProgressFile = Absent

\* The set is 0..m-1 for some m.
InitialSegment(S) == S = 0..(Cardinality(S) - 1)

\* C30: the batch in progress is the list of the positions start ..
\* min(start + batch_size, total) - 1 in ascending order, start a multiple
\* of batch_size; the loop variable only grows, by batch_size; and
\* done_indices of every checkpoint text written, at the temporary or the
\* final path, and of the run in memory between batches, is 0..m-1 for some
\* m, whatever batch sizes the runs of the chain had.
C30_ContiguousAscendingBatches ==
    /\ []((pc \in {"loop", "write_tmp", "replace"} /\ start < total) =>
             /\ start % args.batch_size = 0
             /\ Len(batch_positions) = Cardinality(BatchAt(start) \cap 0..(total - 1))
             /\ \A k \in 1..Len(batch_positions) : batch_positions[k] = start + k - 1)
    /\ [][(pc \in {"loop", "write_tmp", "replace"} /\ start' # start /\ pc' # "exited") =>
             start' = start + args.batch_size]_vars
    /\ [](\A p \in ProgressPaths \cup TmpPaths :
             disk[p].kind = "json" => InitialSegment(Range(disk[p].content.done_indices)))
    /\ []((pc \in {"loop", "write_out", "unlink"}) => InitialSegment(done_indices))

\* C30: a run with batches of two has adopted a checkpoint of a run with
\* batches of one (position 0 done of three) and has written a checkpoint
\* with positions 0 and 1 done.
C30_Witness ==
    /\ pc = "loop"
    /\ loaded
    /\ wrote
    /\ total = 3
    /\ args.batch_size = 2
    /\ adopted.done_indices = {0}
    /\ ProgressFile.kind = "json"
    /\ ProgressFile.content.done_indices = <<0, 1>>

\* C31: over runs of one Run Key with resume enabled and no force restart,
\* a step that leaves a checkpoint file in place keeps every position of
\* its done_indices and every entry of its cache as it is, and the file
\* goes away only at line 317, the complete output written; every run
\* started reaches the end of translate_dataset with the output written and
\* the checkpoint removed, unless the Client raises in it or the process is
\* killed.
C31_MonotoneProgressAndCompletion ==
    /\ [][\A p \in ProgressPaths :
             disk[p].kind = "json" =>
                 \/ /\ disk'[p].kind = "json"
                    /\ Range(disk[p].content.done_indices) \subseteq Range(disk'[p].content.done_indices)
                    /\ \A k \in DOMAIN disk[p].content.cache :
                          /\ k \in DOMAIN disk'[p].content.cache
                          /\ disk'[p].content.cache[k] = disk[p].content.cache[k]
                 \/ /\ disk'[p] = Absent
                    /\ pc = "unlink"
                    /\ p = progress_path
                    /\ OutFile = JsonFile(out_items)
                    /\ Complete]_vars
    /\ (pc = "lang") ~> (\/ pc = "done"
                         \/ ClientFailed
                         \/ pc = "exited" /\ prev = "crashed")
    /\ [](pc = "done" =>
             /\ OutFile.kind = "json"
             /\ Len(OutFile.content) = total
             /\ \A i \in 1..total : OutFile.content[i] # Null
             /\ ~Exists(progress_path))

\* C31: the second run adopted the checkpoint the first run, ended by a
\* Client failure, had left with one position done, and has completed three
\* records.
C31_Witness ==
    /\ pc = "done"
    /\ runs = 2
    /\ prev = "client"
    /\ loaded
    /\ adopted.done_indices = {0}
    /\ total = 3
    /\ calls >= 1
    /\ ~Exists(progress_path)

\* The run adopted a checkpoint in which every position is done: the
\* process before it stopped between the last batch's checkpoint and the
\* unlink of line 317.
AdoptedComplete == loaded /\ total > 0 /\ adopted.done_indices = 0..(total - 1)

\* The checkpoint file at the run's path has every position done.
CompleteCheckpoint ==
    /\ ProgressFile.kind = "json"
    /\ Len(ProgressFile.content.done_indices) = total
    /\ total > 0

\* C32: a run of the same Run Key with resume enabled and no force restart
\* that finds a checkpoint with every position done adopts it; it makes no
\* Client call and writes no checkpoint; unless it is killed it reaches the
\* end, and then the output file holds the items of that checkpoint and the
\* checkpoint file is gone.
C32_FinalizationRecoverable ==
    /\ [][(pc = "load" /\ CompleteCheckpoint /\ pc' # "exited") =>
             /\ pc' = "loop"
             /\ loaded'
             /\ out_items' = ProgressFile.content.items
             /\ done_indices' = 0..(total - 1)]_vars
    /\ [](AdoptedComplete =>
             /\ calls = 0
             /\ ~wrote
             /\ pc \notin {"failed", "write_tmp", "replace"}
             /\ pc \in {"next", "done"} =>
                   /\ OutFile = JsonFile(adopted.out_items)
                   /\ ~Exists(progress_path))
    /\ (pc = "load" /\ CompleteCheckpoint) ~> (pc = "done" \/ (pc = "exited" /\ prev = "crashed"))

\* C32: the process before was killed with every position of three in its
\* checkpoint, and this run has finished from it with no Client call.
C32_Witness ==
    /\ pc = "done"
    /\ runs = 2
    /\ prev = "crashed"
    /\ AdoptedComplete
    /\ total = 3
    /\ calls = 0
    /\ OutFile = JsonFile(adopted.out_items)
    /\ ~Exists(progress_path)

\* C32: the process was killed inside the output write of line 312, and the
\* next run is about to load the checkpoint, the torn output still there.
C32_TornOutput ==
    /\ pc = "load"
    /\ runs = 2
    /\ CompleteCheckpoint
    /\ OutFile = Partial

\* C33: a run of the same Run Key with resume enabled, whatever its batch
\* size, adopts the checkpoint it finds, whatever batch sizes it was written
\* with; in each of its batches the pending positions are the positions of
\* the batch that the adopted checkpoint has not done; a step of the loop
\* changes an output entry only at a position not adopted as done, from
\* null to an item; and when the language is finished every position is
\* done and, the Client being a function of each string, the output file is
\* the array an uninterrupted run writes.
C33_BatchSizeNotInRunKey ==
    /\ [][(pc = "load" /\ ProgressFile.kind = "json" /\ pc' # "exited") =>
             /\ pc' = "loop"
             /\ loaded'
             /\ done_indices' = Range(ProgressFile.content.done_indices)]_vars
    /\ []((pc = "loop" /\ loaded /\ start < total) =>
             Range(pending_positions) = (BatchAt(start) \cap 0..(total - 1)) \ adopted.done_indices)
    /\ [][(pc = "loop" /\ loaded /\ pc' # "exited") =>
             \A i \in 1..total :
                 out_items'[i] # out_items[i] =>
                     /\ (i - 1) \notin adopted.done_indices
                     /\ out_items[i] = Null
                     /\ out_items'[i] # Null]_vars
    /\ []((LangFinished /\ loaded) =>
             /\ done_indices = 0..(total - 1)
             /\ clientDet => OutFile = JsonFile(UninterruptedOutput(data, lang_name)))

\* C33: a run with batches of two has adopted a checkpoint with position 0
\* done of three, which only a run with batches of one writes, has called
\* the Client, a function of each string throughout, and has finished.
C33_Witness ==
    /\ LangFinished
    /\ loaded
    /\ clientDet
    /\ runs = 2
    /\ total = 3
    /\ args.batch_size = 2
    /\ adopted.done_indices = {0}
    /\ calls >= 1
    /\ OutFile = JsonFile(UninterruptedOutput(data, lang_name))

\* C33: a run with batches of one has adopted a checkpoint with positions 0
\* and 1 done of three, and its third batch is the first with a pending
\* position.
C33_SmallerBatches ==
    /\ pc = "loop"
    /\ loaded
    /\ total = 3
    /\ args.batch_size = 1
    /\ adopted.done_indices = {0, 1}
    /\ start = 2
    /\ pending_positions = <<2>>

====
